---- MODULE Spec2Model ----
(***************************************************************************)
(* Task consolidation pipeline of claude-task-master:                      *)
(*   - the hierarchy orchestrator (process-document-hierarchy.js) with the *)
(*     single-document generator (parse-prd.js) and the tagged task store, *)
(*   - the merge engine (merge-tasks.js, hash-task.js).                    *)
(* Two specifications share the variables: SpecHierarchy runs              *)
(* processDocumentHierarchy, SpecMerge runs mergeTasksInTag.               *)
(***************************************************************************)
EXTENDS Integers, Sequences, FiniteSets, TLC

VARIABLES
    \* ---- orchestrator run (processDocumentHierarchy) ----
    documentSources,            \* config.documentSources: Seq([id, parentId])
    options,                    \* run options {force, append, failFast, escalate}
    store,                      \* tasks.json: tag -> Seq(task)
    store0,                     \* tasks.json as it was before the run (history)
    pc,                         \* position of the run
    sortedDocuments,            \* result of sortDocumentSources
    i,                          \* loop index into sortedDocuments (1-based)
    currentTaskStartId,         \* currentTaskStartIdPerTag[targetTag]
    allGeneratedTasksByDocId,   \* doc id -> tasks generated for it in this run
    generatedTasksForOutput,    \* generatedTasksByTagForOutput[targetTag]
    calls,                      \* generator invocations, in order (history)
    skipped,                    \* ids of sources skipped for a missing file (history)
    err,                        \* error that reached the caller, or "none"
    \* ---- merge engine run (mergeTasksInTag) ----
    mg                          \* record of the merge run's locals

hvars == <<documentSources, options, store, store0, pc, sortedDocuments, i,
           currentTaskStartId, allGeneratedTasksByDocId,
           generatedTasksForOutput, calls, skipped, err>>
vars == <<documentSources, options, store, store0, pc, sortedDocuments, i,
          currentTaskStartId, allGeneratedTasksByDocId,
          generatedTasksForOutput, calls, skipped, err, mg>>

(***************************************************************************)
(* Bounds of the model                                                     *)
(***************************************************************************)
MaxDocs == 3            \* document sources in a configuration

DocNames == <<"a", "b", "c", "d", "e">>
NoParent == "none"      \* parentId absent (falsy)
GhostId == "ghost"      \* a parentId that names no configured source
TargetTag == "master"
OtherTag == "other"
Tags == {TargetTag, OtherTag}
Priorities == {"low", "medium", "high"}
GenCounts == {0, 2}     \* tasks the AI service returns for one document: none, or several

\* ---- small helpers on sequences ----
Range(s) == {s[k] : k \in DOMAIN s}
RECURSIVE SeqMax(_)
SeqMax(s) == IF s = <<>> THEN 0
             ELSE LET m == SeqMax(Tail(s)) IN IF Head(s) > m THEN Head(s) ELSE m
SeqMap(s, Op(_)) == [k \in DOMAIN s |-> Op(s[k])]
Ids(s) == [k \in DOMAIN s |-> s[k].id]
IndexOf(s, x) == IF \E k \in DOMAIN s : s[k] = x
                 THEN CHOOSE k \in DOMAIN s : s[k] = x /\ \A j \in 1..(k-1) : s[j] # x
                 ELSE 0

(***************************************************************************)
(* sortDocumentSources                                                     *)
(***************************************************************************)
DocIdSet(ds) == {ds[k].id : k \in DOMAIN ds}

\* roots: sources without a (truthy) parentId, in configuration order
Roots(ds) == Ids(SelectSeq(ds, LAMBDA d : d.parentId = NoParent))

\* children of docId: sources naming it as parent, in configuration order.
\* A source whose parentId is set but names no configured source is neither a
\* root nor anybody's child.
Children(ds, docId) == Ids(SelectSeq(ds, LAMBDA d : d.parentId = docId))

DocById(ds, docId) == ds[CHOOSE k \in DOMAIN ds : ds[k].id = docId]

RECURSIVE visit(_, _, _), visitEach(_, _, _)

\* mutant: the node is pushed after its children (post-order)
visitPostOrder(ds, docId, st) ==
    IF st.thrown THEN st
    ELSE IF docId \notin DocIdSet(ds) THEN st
    ELSE IF docId \in st.visited THEN st
    ELSE IF docId \in st.visiting THEN [st EXCEPT !.thrown = TRUE]
    ELSE LET s1 == [st EXCEPT !.visiting = @ \cup {docId}]
             s2 == visitEach(ds, Children(ds, docId), s1)
         IN  IF s2.thrown THEN s2
             ELSE [s2 EXCEPT !.sorted = Append(@, DocById(ds, docId)),
                             !.visited = @ \cup {docId},
                             !.visiting = @ \ {docId}]

visit(ds, docId, st) ==
    IF st.thrown THEN st                                   \* exception unwinding
    ELSE IF docId \notin DocIdSet(ds) THEN st              \* !docNode: warn, return
    ELSE IF docId \in st.visited THEN st
    ELSE IF docId \in st.visiting THEN [st EXCEPT !.thrown = TRUE]
    ELSE LET s1 == [st EXCEPT !.visiting = @ \cup {docId},
                              !.sorted = Append(@, DocById(ds, docId))]
             s2 == visitEach(ds, Children(ds, docId), s1)
         IN  IF s2.thrown THEN s2
             ELSE [s2 EXCEPT !.visited = @ \cup {docId},
                             !.visiting = @ \ {docId}]

visitEach(ds, idSeq, st) ==
    IF idSeq = <<>> THEN st
    ELSE visitEach(ds, Tail(idSeq), visit(ds, Head(idSeq), st))

\* returns [sorted, thrown]: the sorted list, or thrown = TRUE for the
\* "Circular dependency detected" error
sortDocumentSources(ds) ==
    LET st0 == [sorted |-> <<>>, visited |-> {}, visiting |-> {}, thrown |-> FALSE]
        st  == visitEach(ds, Roots(ds), st0)
    IN  [sorted |-> st.sorted, thrown |-> st.thrown]

(***************************************************************************)
(* The task store and the single-document generator                        *)
(***************************************************************************)
Task(id, src) == [id |-> id, sourceDocumentId |-> src, priority |-> "medium"]

\* processedNewTasks: n tasks with sequential ids from startId (the AI's ids
\* are remapped), stamped with the document id
processedNewTasks(docId, startId, n) ==
    [k \in 1..n |-> Task(startId + k - 1, docId)]

\* mutant: force does not empty the list read from the store
existingTasksKept(st, force) == st[TargetTag]

\* existingTasksInTag as parseDocumentAndGenerateTasks sees it
existingTasksInTag(st, force) == IF force THEN <<>> ELSE st[TargetTag]

\* finalTasksForTag
finalTasksForTag(st, force, append, new) ==
    IF append THEN existingTasksInTag(st, force) \o new
    ELSE IF force THEN new
    ELSE existingTasksInTag(st, force) \o new

\* mutant: the file is written with the target tag alone
writeTagAlone(st, tasks) == [t \in Tags |-> IF t = TargetTag THEN tasks ELSE <<>>]

\* the write of the generator: only the target tag's entry is replaced
writeTag(st, tasks) == [st EXCEPT ![TargetTag] = tasks]

(***************************************************************************)
(* processDocumentHierarchy                                                *)
(***************************************************************************)
ParentChoices(n) == {NoParent, GhostId} \cup {DocNames[k] : k \in 1..n}

Configurations ==
    UNION {
        { [k \in 1..n |-> [id |-> DocNames[k], parentId |-> p[k]]] :
            p \in [1..n -> ParentChoices(n)] } : n \in 0..MaxDocs }

\* every parentId is absent or names a source configured earlier in the list
ForestOfEarlierParents(ds) ==
    \A k \in DOMAIN ds :
        \/ ds[k].parentId = NoParent
        \/ \E j \in 1..(k-1) : ds[j].id = ds[k].parentId

Options == [force : BOOLEAN, append : BOOLEAN,
            failFast : {"undefined", "true", "false"}, escalate : BOOLEAN]
DefaultOptions == [force |-> FALSE, append |-> FALSE,
                   failFast |-> "undefined", escalate |-> FALSE]

OtherTagTasks == <<Task(1, "x")>>
EmptyStore == [t \in Tags |-> IF t = OtherTag THEN OtherTagTasks ELSE <<>>]
UsedStore == [t \in Tags |-> IF t = OtherTag THEN OtherTagTasks
                             ELSE <<Task(3, "old"), Task(1, "old")>>]
Stores == {EmptyStore, UsedStore}

MergeIdle == [phase |-> "idle"]

InitHierarchy ==
    /\ documentSources \in Configurations
    /\ options \in Options
    /\ store \in Stores
    /\ \/ ForestOfEarlierParents(documentSources)
       \/ (options = DefaultOptions /\ store = EmptyStore)
    /\ store0 = store
    /\ pc = "start"
    /\ sortedDocuments = <<>>
    /\ i = 1
    /\ currentTaskStartId = 0
    /\ allGeneratedTasksByDocId = [d \in {} |-> <<>>]
    /\ generatedTasksForOutput = <<>>
    /\ calls = <<>>
    /\ skipped = {}
    /\ err = "none"
    /\ mg = MergeIdle

\* lines 154-157: nothing configured
NoDocumentSources ==
    /\ pc = "start"
    /\ documentSources = <<>>
    /\ pc' = "done"
    /\ UNCHANGED <<documentSources, options, store, store0, sortedDocuments, i,
                   currentTaskStartId, allGeneratedTasksByDocId,
                   generatedTasksForOutput, calls, skipped, err, mg>>

\* lines 159-167: sort, rethrow the sort's error
SortSources ==
    /\ pc = "start"
    /\ documentSources # <<>>
    /\ LET r == sortDocumentSources(documentSources) IN
         IF r.thrown
         THEN /\ pc' = "failed"
              /\ err' = "circular"
              /\ UNCHANGED sortedDocuments
         ELSE /\ pc' = "ids"
              /\ sortedDocuments' = r.sorted
              /\ UNCHANGED err
    /\ UNCHANGED <<documentSources, options, store, store0, i,
                   currentTaskStartId, allGeneratedTasksByDocId,
                   generatedTasksForOutput, calls, skipped, mg>>

\* mutant: an appending run numbers from 1 as well
restartIds(existing) == 1

\* line 201
appendStartId(existing) == SeqMax(Ids(existing)) + 1

\* mutant: the tag is taken to be empty whatever the store holds
tagSeenEmpty(st) == FALSE

\* line 199: the target tag exists in tasks.json and holds tasks
tagHasTasks(st) == Len(st[TargetTag]) > 0

\* lines 199-222: the first id of the run, or the conflict error
InitTaskIds ==
    /\ pc = "ids"
    /\ IF tagHasTasks(store)
       THEN IF options.append
            THEN /\ currentTaskStartId' = appendStartId(store[TargetTag])
                 /\ pc' = "loop"
                 /\ UNCHANGED err
            ELSE IF options.force
            THEN /\ currentTaskStartId' = 1
                 /\ pc' = "loop"
                 /\ UNCHANGED err
            ELSE /\ pc' = "failed"
                 /\ err' = "conflict"
                 /\ UNCHANGED currentTaskStartId
       ELSE /\ currentTaskStartId' = 1
            /\ pc' = "loop"
            /\ UNCHANGED err
    /\ UNCHANGED <<documentSources, options, store, store0, sortedDocuments, i,
                   allGeneratedTasksByDocId, generatedTasksForOutput, calls, skipped, mg>>

InLoop == pc = "loop" /\ i <= Len(sortedDocuments)

\* lines 229-233: the document's file does not exist
SkipMissingDocument ==
    /\ InLoop
    /\ i' = i + 1
    /\ skipped' = skipped \cup {sortedDocuments[i].id}
    /\ UNCHANGED <<documentSources, options, store, store0, pc, sortedDocuments,
                   currentTaskStartId, allGeneratedTasksByDocId,
                   generatedTasksForOutput, calls, err, mg>>

\* mutant: every task generated so far in the run is handed down as context
parentTasksContextWholeRun(doc, byDoc) ==
    IF doc.parentId # NoParent THEN generatedTasksForOutput ELSE <<>>

\* lines 276-285
parentTasksContext(doc, byDoc) ==
    IF doc.parentId # NoParent
    THEN IF doc.parentId \in DOMAIN byDoc THEN byDoc[doc.parentId] ELSE <<>>
    ELSE <<>>

\* line 294
isFirstDocumentInForcedRun(force, idx) == force /\ idx = 1

\* lines 297-307
parseOptions(doc) ==
    LET first == isFirstDocumentInForcedRun(options.force, i) IN
    [doc |-> doc.id,
     force |-> first,
     append |-> (~first) \/ options.append,
     currentTaskStartId |-> currentTaskStartId,
     parentTasksContext |-> parentTasksContext(doc, allGeneratedTasksByDocId),
     outcome |-> "threw"]      \* history: how the invocation ended

\* lines 309-330 with parse-prd.js 107-392: the generator succeeds with n tasks
GenerateTasks(n) ==
    /\ InLoop
    /\ LET doc == sortedDocuments[i]
           po  == parseOptions(doc)
           new == processedNewTasks(doc.id, po.currentTaskStartId, n)
       IN  /\ calls' = Append(calls, [po EXCEPT !.outcome = "ok"])
           /\ store' = writeTag(store, finalTasksForTag(store, po.force, po.append, new))
           /\ allGeneratedTasksByDocId' =
                [d \in DOMAIN allGeneratedTasksByDocId \cup {doc.id} |->
                    IF d = doc.id THEN new ELSE allGeneratedTasksByDocId[d]]
           /\ generatedTasksForOutput' = generatedTasksForOutput \o new
           /\ currentTaskStartId' = po.currentTaskStartId + n
    /\ i' = i + 1
    /\ UNCHANGED <<documentSources, options, store0, pc, sortedDocuments,
                   skipped, err, mg>>

\* mutant: only an explicit failFast = true aborts the run
FailFastOnlyWhenTrue == options.failFast = "true"

FailFastActive == options.failFast \in {"undefined", "true"}

\* lines 335-341: the generator throws (before its write)
GeneratorThrows ==
    /\ InLoop
    /\ calls' = Append(calls, parseOptions(sortedDocuments[i]))
    /\ IF FailFastActive
       THEN /\ pc' = "failed"
            /\ err' = "generator"
            /\ UNCHANGED i
       ELSE /\ i' = i + 1
            /\ UNCHANGED <<pc, err>>
    /\ UNCHANGED <<documentSources, options, store, store0, sortedDocuments,
                   currentTaskStartId, allGeneratedTasksByDocId,
                   generatedTasksForOutput, skipped, mg>>

EscalationApplies == options.escalate /\ Len(generatedTasksForOutput) > 0

\* lines 344-405 without the escalation pass
FinishRun ==
    /\ pc = "loop"
    /\ i > Len(sortedDocuments)
    /\ ~EscalationApplies
    /\ pc' = "done"
    /\ UNCHANGED <<documentSources, options, store, store0, sortedDocuments, i,
                   currentTaskStartId, allGeneratedTasksByDocId,
                   generatedTasksForOutput, calls, skipped, err, mg>>

\* lines 346-398: escalateAllTasks over the tasks generated in this run, then
\* the tag is rewritten with the result. The rule engine's verdict depends on
\* the document type and on task text that is not part of these records: any
\* priority per source document.
EscalateAndFinish ==
    /\ pc = "loop"
    /\ i > Len(sortedDocuments)
    /\ EscalationApplies
    /\ \E p \in [{t.sourceDocumentId : t \in Range(generatedTasksForOutput)} -> Priorities] :
         LET escalatedTasks ==
                [k \in DOMAIN generatedTasksForOutput |->
                    [generatedTasksForOutput[k] EXCEPT
                        !.priority = p[generatedTasksForOutput[k].sourceDocumentId]]]
         IN  /\ store' = writeTag(store, escalatedTasks)
             /\ generatedTasksForOutput' = escalatedTasks
    /\ pc' = "done"
    /\ UNCHANGED <<documentSources, options, store0, sortedDocuments, i,
                   currentTaskStartId, allGeneratedTasksByDocId, calls, skipped,
                   err, mg>>

NextHierarchy ==
    \/ NoDocumentSources
    \/ SortSources
    \/ InitTaskIds
    \/ SkipMissingDocument
    \/ \E n \in GenCounts : GenerateTasks(n)
    \/ GeneratorThrows
    \/ FinishRun
    \/ EscalateAndFinish

SpecHierarchy == InitHierarchy /\ [][NextHierarchy]_vars

(***************************************************************************)
(* hash-task.js: titles and descriptions are sequences of whitespace-      *)
(* separated words                                                         *)
(***************************************************************************)
LowerCase(w) == CASE w = "Login" -> "login"
                  [] w = "PRD" -> "prd"
                  [] w = "UX_SPEC" -> "ux_spec"
                  [] OTHER -> w
LowerWords(ws) == [k \in DOMAIN ws |-> LowerCase(ws[k])]

LeadingVerbs == {"implement", "create", "add", "build", "setup", "configure"}
TrailingNouns == {"implementation", "setup", "configuration"}
ShortTokens == {"|", ""}            \* words of the vocabulary of length <= 2

\* normalizeTitle: lower case, one leading verb and one trailing noun
\* stripped when other words remain next to them
normalizeTitle(title) ==
    LET low == LowerWords(title)
        a == IF Len(low) > 1 /\ low[1] \in LeadingVerbs THEN Tail(low) ELSE low
    IN  IF Len(a) > 1 /\ a[Len(a)] \in TrailingNouns
        THEN SubSeq(a, 1, Len(a) - 1) ELSE a

\* createGroupingKey: normalizedTitle|screen|component|epicId (the three
\* metadata fields are unset on the tasks of this model)
createGroupingKey(task) == <<normalizeTitle(task.title), "", "", "">>

\* generateTaskHash: SHA-256 of the trimmed, lower-cased fields, taken as
\* injective: the tuple of the hashed fields
generateTaskHash(task) ==
    <<LowerWords(task.title), LowerWords(task.description), "", "",
      LowerCase(task.sourceDocumentType.values[1])>>

\* (task.sourceDocumentType || '').trim() is a TypeError on an array
generateTaskHashThrows(task) == task.sourceDocumentType.array

(***************************************************************************)
(* merge-tasks.js                                                          *)
(***************************************************************************)
RECURSIVE Dedup(_)
\* insertion order of a JS Set / Map: first occurrences, in order
Dedup(s) ==
    IF s = <<>> THEN <<>>
    ELSE LET r == Dedup(SubSeq(s, 1, Len(s) - 1))
         IN  IF s[Len(s)] \in Range(r) THEN r ELSE Append(r, s[Len(s)])

RECURSIVE Flatten(_)
Flatten(ss) == IF ss = <<>> THEN <<>> ELSE Head(ss) \o Flatten(Tail(ss))

RemoveAt(s, k) == SubSeq(s, 1, k - 1) \o SubSeq(s, k + 1, Len(s))

\* identifyDuplicateGroups
identifyDuplicateGroups(tasks) ==
    LET keys == Dedup([k \in DOMAIN tasks |-> createGroupingKey(tasks[k])])
        groups == [k \in DOMAIN keys |->
                     SelectSeq(tasks, LAMBDA t : createGroupingKey(t) = keys[k])]
    IN  SelectSeq(groups, LAMBDA g : Len(g) > 1)

\* calculateSemanticSimilarity: the token set of a task
Tokens(task) ==
    {LowerCase(w) : w \in Range(task.title) \cup Range(task.description)} \ ShortTokens

\* calculateSemanticSimilarity as the fraction <<numerator, denominator>>
calculateSemanticSimilarity(taskA, taskB) ==
    LET tokensA == Tokens(taskA)
        tokensB == Tokens(taskB)
    IN  IF tokensA = {} /\ tokensB = {} THEN <<1, 1>>
        ELSE IF tokensA = {} \/ tokensB = {} THEN <<0, 1>>
        ELSE <<Cardinality(tokensA \cap tokensB), Cardinality(tokensA \cup tokensB)>>

SimilarityThreshold == 85       \* default similarityThreshold, in percent
LLMBandFloor == 50              \* similarity > 0.5, in percent
LLMConfidenceFloor == 70        \* confidence > 0.7, in percent

AtLeast(sim, pct) == sim[1] * 100 >= pct * sim[2]
Above(sim, pct) == sim[1] * 100 > pct * sim[2]

PRIORITY_ORDER(p) == CASE p = "low" -> 1 [] p = "medium" -> 2 [] p = "high" -> 3
PRIORITY_LEVELS == <<"low", "medium", "high">>

NoPriority == "none"        \* task.priority is undefined
\* PRIORITY_ORDER[p] || PRIORITY_ORDER['medium']
PriorityLevel(p) == IF p \in Priorities THEN PRIORITY_ORDER(p) ELSE PRIORITY_ORDER("medium")
\* task.priority || 'medium'
PriorityOrDefault(p) == IF p = NoPriority THEN "medium" ELSE p

getMaxPriority(priorityA, priorityB) ==
    LET levelA == PriorityLevel(priorityA)
        levelB == PriorityLevel(priorityB)
    IN  PRIORITY_LEVELS[IF levelA > levelB THEN levelA ELSE levelB]

isPriorityHigher(priorityA, priorityB) == PriorityLevel(priorityA) > PriorityLevel(priorityB)

(***************************************************************************)
(* Task objects: a record holds the properties the object has. A property  *)
(* that can hold a string or an array of strings is [array, values]; a     *)
(* text is the sequence of its words.                                      *)
(***************************************************************************)
NoValue == [array |-> FALSE, values |-> <<>>]           \* undefined
Scalar(v) == [array |-> FALSE, values |-> <<v>>]
ArrayOf(vs) == [array |-> TRUE, values |-> vs]
ValueOf(task, f) == IF f \in DOMAIN task THEN task[f] ELSE NoValue
TextOf(task, f) == IF f \in DOMAIN task THEN task[f] ELSE <<>>
\* task[f] = v on an object (task and v evaluated once)
Put(task, f, v) ==
    CHOOSE r \in {[g \in DOMAIN t \cup {f} |-> IF g = f THEN x ELSE t[g]] :
                    t \in {task}, x \in {v}} : TRUE
\* value === 'name'
IsString(value, name) == ~value.array /\ value.values = <<name>>

WordLength(w) ==
    CASE w \in {"|"} -> 1
      [] w \in {" "} -> 0
      [] w \in {"form", "page", "epic"} -> 4
      [] w \in {"Login", "login", "tests"} -> 5
      [] w \in {"logout"} -> 6
      [] w \in {"refactor"} -> 8
      [] w \in {"implement"} -> 9
      [] w \in {"authentication"} -> 14
RECURSIVE TextLength(_)
\* text.trim().length, the words being separated by single spaces
TextLength(ws) ==
    IF ws = <<>> THEN 0
    ELSE IF Len(ws) = 1 THEN WordLength(ws[1])
    ELSE WordLength(ws[1]) + 1 + TextLength(Tail(ws))

\* an object created during the call; input objects are numbered from 1
NewObject == 0

\* mutant: the object is used as it is, not copied
sameObject(ref) == ref

\* { ...task }: merge-tasks.js lines 147 and 289-292, escalate-priority.js
\* lines 195-199
objectSpread(ref) == NewObject

(***************************************************************************)
(* escalate-priority.js                                                    *)
(***************************************************************************)
BASE_PRIORITY_BY_DOCUMENT_TYPE(key) ==
    CASE key \in {"PRD", "PRODUCT_REQUIREMENTS"} -> "high"
      [] key \in {"SDD", "SOFTWARE_DESIGN", "TECH_SPEC", "ARCHITECTURE", "INFRA_SPEC"} -> "low"
      [] OTHER -> "medium"

\* task.sourceDocumentType || 'UNKNOWN', as the property key it is used as:
\* an array is joined with ','
DocumentTypeKey(sdt) ==
    IF sdt = NoValue THEN "UNKNOWN"
    ELSE IF Len(sdt.values) = 1 THEN sdt.values[1]
    ELSE IF sdt.values = <<>> THEN ""
    ELSE ","

\* the words of the vocabulary the keyword patterns match
SecurityWords == {"security", "auth", "encryption", "token", "login", "signin",
                  "authentication", "authorization"}
MaintenanceWords == {"refactor", "documentation", "doc", "readme", "comment"}
TaskText(task) == LowerWords(TextOf(task, "title") \o TextOf(task, "description"))

TestStrategyMinLength == 20
ShortDescriptionLength == 20
Bump(level) == IF level + 1 < 3 THEN level + 1 ELSE 3

\* mutant: the level becomes medium, a higher one included
exactlyMedium(level) == PRIORITY_ORDER("medium")

\* Math.max(currentPriorityLevel, PRIORITY_ORDER['medium'])
AtLeastMedium(level) == IF level > PRIORITY_ORDER("medium") THEN level ELSE PRIORITY_ORDER("medium")

\* one rule of escalateTaskPriority on the pair <<level, reasons>> reached so
\* far: when it applies, the level becomes Bump(level), at least medium, or
\* the level named, and its reason is noted
RuleBump(step, applies, reason) ==
    CHOOSE r \in {IF applies THEN <<Bump(s[1]), Append(s[2], reason)>> ELSE s :
                    s \in {step}} : TRUE
RuleAtLeastMedium(step, applies, reason) ==
    CHOOSE r \in {IF applies THEN <<AtLeastMedium(s[1]), Append(s[2], reason)>> ELSE s :
                    s \in {step}} : TRUE
RuleSet(step, applies, level, reason) ==
    CHOOSE r \in {IF applies THEN <<level, Append(s[2], reason)>> ELSE s :
                    s \in {step}} : TRUE
\* a string of whitespace only: truthy, and empty once trimmed
Blank == <<" ">>
\* text && text.trim().length > 0
HasText(text) == text # <<>> /\ text # Blank

\* line 93: task.epicId.trim() is not a function when epicId is an array, and
\* the TypeError leaves escalateTaskPriority, escalateAllTasks and
\* escalateAfterMerge, none of which catches it
escalateTaskPriorityThrows(task) == ValueOf(task, "epicId").array

\* escalateTaskPriority lines 58-112: the escalation rules in the order of
\* the code, each step a pair <<level, reasons>>
escalationLevel(task) ==
    LET sourceDocumentType == ValueOf(task, "sourceDocumentType")
        basePriority == BASE_PRIORITY_BY_DOCUMENT_TYPE(DocumentTypeKey(sourceDocumentType))
        perf == TextOf(task, "performanceGoal")
        layer == ValueOf(task, "layer")
        s0 == <<PRIORITY_ORDER(basePriority), <<"base">>>>
        s1 == RuleBump(s0, TextLength(TextOf(task, "testStrategy")) > TestStrategyMinLength,
                       "testStrategy")
        s2 == RuleBump(s1, HasText(perf), "performanceGoal")
        s3 == RuleBump(s2, HasText(TextOf(task, "reliabilityTarget")), "reliabilityTarget")
        s4 == RuleAtLeastMedium(s3, IsString(sourceDocumentType, "UX_SPEC")
                                    /\ IsString(layer, "presentation"), "presentation")
        s5 == RuleSet(s4, HasText(ValueOf(task, "epicId").values)
                          /\ "epic" \in Range(LowerWords(TextOf(task, "title"))),
                      PRIORITY_ORDER("high"), "epic")
        s6 == RuleBump(s5, Range(TaskText(task)) \cap SecurityWords # {}, "security")
    IN  RuleAtLeastMedium(s6, IsString(layer, "infra") /\ perf # <<>>, "infra")

\* escalateTaskPriority lines 114-138: the demotion rules on the level reached
demote(task, escalated) ==
    LET sourceDocumentType == ValueOf(task, "sourceDocumentType")
        basePriority == BASE_PRIORITY_BY_DOCUMENT_TYPE(DocumentTypeKey(sourceDocumentType))
        d1 == RuleSet(escalated, (IsString(sourceDocumentType, "TECH_SPEC")
                                  \/ IsString(sourceDocumentType, "SDD"))
                                 /\ ~HasText(TextOf(task, "performanceGoal"))
                                 /\ escalated[1] = PRIORITY_ORDER(basePriority),
                      PRIORITY_ORDER("low"), "techWithoutGoal")
        d2 == RuleSet(d1, TextOf(task, "description") # <<>>
                          /\ TextLength(TextOf(task, "description")) < ShortDescriptionLength,
                      PRIORITY_ORDER("low"), "shortDescription")
    IN  RuleSet(d2, Range(TaskText(task)) \cap MaintenanceWords # {}
                    /\ TextOf(task, "dependencies") = <<>>,
                PRIORITY_ORDER("low"), "maintenance")

\* escalateTaskPriority lines 57-149, where it does not throw
escalateTaskPriority(task) ==
    CHOOSE r \in {[priority |-> PRIORITY_LEVELS[d[1]], escalationReason |-> d[2]] :
                   d \in {demote(task, s) : s \in {escalationLevel(task)}}} : TRUE

\* escalateAllTasks lines 165-210, where no task throws: each element is the
\* input object ref k itself or a new object
escalateAllTasks(tasks) ==
    [k \in DOMAIN tasks |->
        CHOOSE r \in
            {IF escalationResult.priority # PriorityOrDefault(tasks[k].priority)
             THEN [ref |-> objectSpread(k),
                   task |-> Put(Put(tasks[k], "priority", escalationResult.priority),
                                "escalationReason", escalationResult.escalationReason)]
             ELSE [ref |-> k, task |-> tasks[k]] :
               escalationResult \in {escalateTaskPriority(tasks[k])}} : TRUE]

\* escalateAfterMerge lines 250-263, where the rule engine does not throw
escalateAfterMerge(mergedTask) ==
    CHOOSE r \in
        {IF isPriorityHigher(escalationResult.priority, PriorityOrDefault(m.priority))
         THEN Put(Put(m, "priority", escalationResult.priority),
                  "escalationReason", escalationResult.escalationReason)
         ELSE m : m \in {mergedTask}, escalationResult \in {escalateTaskPriority(mergedTask)}} :
        TRUE

(***************************************************************************)
(* merge-tasks.js: mergeTasks                                              *)
(***************************************************************************)
RECURSIVE SortById(_)
\* [...taskGroup].sort((a, b) => a.id - b.id), a stable sort
SortById(s) ==
    IF s = <<>> THEN <<>>
    ELSE LET m == CHOOSE k \in DOMAIN s :
                     \A j \in DOMAIN s :
                        s[k].id < s[j].id \/ (s[k].id = s[j].id /\ k <= j)
         IN  <<s[m]>> \o SortById(RemoveAt(s, m))

RECURSIVE HighestPriority(_, _)
\* lines 178-188: the running maximum over otherTasks
HighestPriority(highest, others) ==
    IF others = <<>> THEN highest
    ELSE HighestPriority(
            getMaxPriority(highest, PriorityOrDefault(Head(others).priority)),
            Tail(others))

RECURSIVE JoinDescriptions(_)
\* descriptions.join(' | ')
JoinDescriptions(ds) ==
    IF Len(ds) = 1 THEN ds[1]
    ELSE ds[1] \o <<"|">> \o JoinDescriptions(Tail(ds))

PriorityNote(p) == <<"Priority upgraded to", p, "due to task merge.">>
EscalationNote(p, reason) == <<"Priority escalated to", p, "after merge", reason>>

\* the values of property f over the tasks, deduplicated in order of appearance
UnionOfValues(tasks, f) ==
    Dedup(Flatten([k \in DOMAIN tasks |-> ValueOf(tasks[k], f).values]))

\* lines 174-175: Array.from(set)
provenanceArray(values) == ArrayOf(values)

metadataFields == <<"screen", "component", "epicId", "module", "layer", "viewport", "infraZone">>

RECURSIVE MergeMetadata(_, _, _)
\* lines 200-218
MergeMetadata(mergedTask, sortedTasks, fields) ==
    IF fields = <<>> THEN mergedTask
    ELSE MergeMetadata(
            CHOOSE next \in
                {IF values # <<>>
                 THEN Put(m, Head(fields),
                          IF Len(values) = 1 THEN Scalar(values[1]) ELSE ArrayOf(values))
                 ELSE m : m \in {mergedTask},
                          values \in {UnionOfValues(sortedTasks, Head(fields))}} : TRUE,
            sortedTasks, Tail(fields))

\* mutant: the priority of the primary task is kept
keepPrimaryPriority(primaryPriority, otherTasks) == primaryPriority

\* lines 177-188
mergedPriority(primaryPriority, otherTasks) == HighestPriority(primaryPriority, otherTasks)

\* mutant: the note is written on every merge
alwaysNoted(startPriority, highestPriority) == TRUE

\* lines 179-187: priorityChanged, set when the running maximum leaves the
\* priority of the primary task
priorityUpgraded(startPriority, highestPriority) == highestPriority # startPriority

\* lines 192-198: the note of a priority upgrade
notePriorityUpgrade(mergedTask, priorityChanged) ==
    CHOOSE r \in {IF priorityChanged
                   THEN Put(m, "estimationNote",
                            Append(TextOf(m, "estimationNote"), PriorityNote(m.priority)))
                   ELSE m : m \in {mergedTask}} : TRUE

\* mergeTasks lines 141-248 on the group sorted by id: the consolidated task
\* before escalation
consolidateSorted(sortedTasks) ==
    LET primaryTask == sortedTasks[1]
        otherTasks == Tail(sortedTasks)
        startPriority == PriorityOrDefault(primaryTask.priority)
        highestPriority == mergedPriority(startPriority, otherTasks)
        priorityChanged == priorityUpgraded(startPriority, highestPriority)
        allSubtasks == Flatten([k \in DOMAIN sortedTasks |-> TextOf(sortedTasks[k], "subtasks")])
        descriptions ==
            Dedup(SelectSeq([k \in DOMAIN sortedTasks |-> TextOf(sortedTasks[k], "description")],
                            LAMBDA d : d # <<>>))
        t1 == Put(primaryTask, "mergedFrom", Ids(otherTasks))
        t2 == Put(t1, "sourceDocumentId",
                  provenanceArray(UnionOfValues(sortedTasks, "sourceDocumentId")))
        t3 == Put(t2, "sourceDocumentType",
                  provenanceArray(UnionOfValues(sortedTasks, "sourceDocumentType")))
        t4 == Put(t3, "priority", highestPriority)
        t5 == notePriorityUpgrade(t4, priorityChanged)
        t6 == MergeMetadata(t5, sortedTasks, metadataFields)
        t7 == Put(t6, "dependencies",
                  Dedup(Flatten([k \in DOMAIN sortedTasks |->
                                    TextOf(sortedTasks[k], "dependencies")])))
        t8 == IF allSubtasks # <<>> THEN Put(t7, "subtasks", allSubtasks) ELSE t7
    IN  IF Len(descriptions) > 1
        THEN Put(t8, "description", JoinDescriptions(descriptions))
        ELSE t8

consolidate(taskGroup) ==
    CHOOSE r \in {consolidateSorted(sortedTasks) : sortedTasks \in {SortById(taskGroup)}} : TRUE

\* lines 253-259: the note of an escalation
noteEscalation(escalatedTask, mergedTask) ==
    IF escalatedTask.priority # mergedTask.priority
    THEN Put(escalatedTask, "estimationNote",
             Append(TextOf(escalatedTask, "estimationNote"),
                    EscalationNote(escalatedTask.priority, escalatedTask.escalationReason)))
    ELSE escalatedTask

\* mergeTasks lines 250-263
mergeTasks(taskGroup, mergeOptions) ==
    CHOOSE r \in
        {IF mergeOptions.escalate
         THEN CHOOSE q \in {noteEscalation(escalatedTask, mergedTask) :
                                escalatedTask \in {escalateAfterMerge(mergedTask)}} : TRUE
         ELSE mergedTask : mergedTask \in {consolidate(taskGroup)}} : TRUE

\* reindexDependencies
reindexDependencies(tasks, mergedIdMap) ==
    IF DOMAIN mergedIdMap = {} THEN tasks
    ELSE [k \in DOMAIN tasks |->
            IF tasks[k].dependencies = <<>> THEN tasks[k]
            ELSE LET updated == [d \in DOMAIN tasks[k].dependencies |->
                                   IF tasks[k].dependencies[d] \in DOMAIN mergedIdMap
                                   THEN mergedIdMap[tasks[k].dependencies[d]]
                                   ELSE tasks[k].dependencies[d]]
                 IN  [tasks[k] EXCEPT !.dependencies =
                        SelectSeq(Dedup(updated), LAMBDA d : d # tasks[k].id)]]

(***************************************************************************)
(* Object identity: the caller's array m.tasks holds the input objects. A  *)
(* reference is the position of an input object in that array, or NewObject *)
(* for an object created during the call; an assignment through a reference *)
(* to an input object changes what the caller sees.                         *)
(***************************************************************************)
\* the input object a task of the run's lists is, if it is one
RefOf(tasks, task) ==
    LET idx == IndexOf(Ids(tasks), task.id)
    IN  IF idx > 0 /\ tasks[idx] = task THEN idx ELSE NewObject

\* the caller's array after the properties of obj were set on the object ref
WriteThrough(tasks, ref, obj) ==
    IF ref = NewObject THEN tasks ELSE [tasks EXCEPT ![ref] = obj]

\* the caller's array after reindexDependencies built its result from tasks
ReindexWrites(inputTasks, tasks, mergedIdMap) ==
    LET result == reindexDependencies(tasks, mergedIdMap)
        target(k) == IF DOMAIN mergedIdMap = {} \/ tasks[k].dependencies = <<>>
                     THEN NewObject
                     ELSE objectSpread(RefOf(inputTasks, tasks[k]))
    IN  [j \in DOMAIN inputTasks |->
            IF \E k \in DOMAIN tasks : target(k) = j
            THEN result[CHOOSE k \in DOMAIN tasks : target(k) = j]
            ELSE inputTasks[j]]

\* lines 347-364 and 414-430: one merge applied to the run's locals
\*   processedTasks without the removed ids, the primary replaced when found,
\*   the id map and the report extended
MergeRecorded(m, mergedTask, group, removedIds, strategy) ==
    LET filtered == SelectSeq(m.processedTasks, LAMBDA t : t.id \notin Range(removedIds))
        primaryIndex == IndexOf(Ids(filtered), mergedTask.id)
    IN  [m EXCEPT
            !.tasks = WriteThrough(@, objectSpread(IndexOf(Ids(@), mergedTask.id)),
                                   mergedTask),
            !.processedTasks =
                IF primaryIndex > 0 THEN [filtered EXCEPT ![primaryIndex] = mergedTask]
                ELSE filtered,
            !.mergedIdMap =
                [d \in DOMAIN m.mergedIdMap \cup Range(removedIds) |->
                    IF d \in Range(removedIds) THEN mergedTask.id ELSE m.mergedIdMap[d]],
            !.mergedGroups =
                Append(@, [keptId |-> mergedTask.id, mergedFrom |-> removedIds,
                           strategy |-> strategy,
                           group |-> {group[k].id : k \in DOMAIN group}])]   \* group: history

\* the same, its arguments evaluated once
RecordMerge(m, mergedTask, group, removedIds, strategy) ==
    CHOOSE r \in {MergeRecorded(mv, tv, group, removedIds, strategy) :
                    mv \in {m}, tv \in {mergedTask}} : TRUE

RECURSIVE MergeHashGroups(_, _)
\* lines 342-368: every hash group of two or more tasks is merged
MergeHashGroups(m, hashGroups) ==
    IF hashGroups = <<>> THEN m
    ELSE LET hashGroup == Head(hashGroups)
             next == IF Len(hashGroup) > 1
                     THEN RecordMerge(m, mergeTasks(hashGroup, m.options), hashGroup,
                                      Ids(Tail(hashGroup)), "hash")
                     ELSE m
         IN  MergeHashGroups(next, Tail(hashGroups))

\* lines 332-339
HashGroupsOf(group) ==
    LET hashes == Dedup([k \in DOMAIN group |-> generateTaskHash(group[k])])
    IN  [h \in DOMAIN hashes |->
            SelectSeq(group, LAMBDA t : generateTaskHash(t) = hashes[h])]

\* the for-loops of lines 376-377: the pair after (a, b) in a list of n tasks
PairAfter(m, n) ==
    IF m.j + 1 <= n THEN [m EXCEPT !.j = m.j + 1]
    ELSE IF m.i + 1 <= n - 1 THEN [m EXCEPT !.i = m.i + 1, !.j = m.i + 2]
    ELSE IF m.g < Len(m.duplicateGroups)
         THEN [m EXCEPT !.g = m.g + 1, !.phase = "hash", !.remainingInGroup = <<>>,
                        !.i = 0, !.j = 0]
    ELSE [m EXCEPT !.phase = "reindex", !.remainingInGroup = <<>>, !.i = 0, !.j = 0]

\* the same, its argument evaluated once
AfterPair(m, n) == CHOOSE r \in {PairAfter(mv, n) : mv \in {m}} : TRUE

\* lines 303-328
MergeStart(tasks, useLLM, escalate) ==
    LET groups == identifyDuplicateGroups(tasks)
    IN  [phase |-> IF groups = <<>> THEN "reindex" ELSE "hash",
         tasks |-> tasks,
         useLLM |-> useLLM,
         options |-> [escalate |-> escalate],
         similarityThreshold |-> SimilarityThreshold,
         processedTasks |-> tasks,
         mergedIdMap |-> [d \in {} |-> 0],
         mergedGroups |-> <<>>,
         llmDecisions |-> 0,
         llmAsked |-> <<>>,
         duplicateGroups |-> groups,
         g |-> IF groups = <<>> THEN 0 ELSE 1,
         remainingInGroup |-> <<>>,
         i |-> 0,
         j |-> 0]

\* ---- the inputs of the merge runs ----
MaxTasks == 3           \* tasks in the list given to mergeTasksInTag

Kinds == {"A", "B", "C", "D"}
KindTitle(k) == CASE k = "A" -> <<"Login">>
                  [] k = "B" -> <<"login">>
                  [] k = "C" -> <<"implement", "login">>
                  [] k = "D" -> <<"logout">>
KindType(k) == IF k = "B" THEN "UX_SPEC" ELSE "PRD"

RECURSIVE SortedSeq(_)
SortedSeq(S) == IF S = {} THEN <<>>
                ELSE LET x == CHOOSE y \in S : \A z \in S : y <= z
                     IN  <<x>> \o SortedSeq(S \ {x})

MergeTask(id, kind, deps) ==
    [id |-> id,
     title |-> KindTitle(kind),
     description |-> <<"authentication", "form", "page">>,
     sourceDocumentType |-> [array |-> FALSE, values |-> <<KindType(kind)>>],
     priority |-> "medium",
     dependencies |-> SortedSeq(deps),
     subtasks |-> <<>>,
     mergedFrom |-> <<>>,
     estimationNote |-> <<>>]

LoweredThreshold == 80          \* similarityThreshold: 0.8, in percent

\* the options of a run: the defaults, or one of useLLM, escalate and a
\* lowered similarityThreshold set
MergeOptions ==
    {o \in [useLLM : BOOLEAN, escalate : BOOLEAN,
            similarityThreshold : {SimilarityThreshold, LoweredThreshold}] :
        /\ ~(o.useLLM /\ o.escalate)
        /\ o.similarityThreshold # SimilarityThreshold => ~o.useLLM /\ ~o.escalate}

\* the dependency edges among the tasks of a run: up to two, up to one in a
\* run with the arbiter, none in a run with a lowered threshold
DependencyEdgeCounts(o) ==
    IF o.useLLM THEN {0, 1}
    ELSE IF o.similarityThreshold # SimilarityThreshold THEN {0}
    ELSE {0, 1, 2}
EdgeSets(n, o) ==
    {E \in SUBSET {<<t, d>> \in (1..n) \X (1..n) : t # d} :
        Cardinality(E) \in DependencyEdgeCounts(o)}

\* the ids 1..n in ascending and in descending list order
IdOrders(n) == {[k \in 1..n |-> k], [k \in 1..n |-> n + 1 - k]}

\* a list of n tasks with unique ids
MergeInput(n, ids, kinds, E) ==
    [k \in 1..n |-> MergeTask(ids[k], kinds[k], {e[2] : e \in {x \in E : x[1] = ids[k]}})]

\* mergeTasksDirect lines 35-54: tasks.json holds the tasks under the target
\* tag, next to the other tags
MergeStore(tasks) == [t \in Tags |-> IF t = OtherTag THEN OtherTagTasks ELSE tasks]


InitMerge ==
    /\ documentSources = <<>>
    /\ options = DefaultOptions
    /\ pc = "idle"
    /\ sortedDocuments = <<>>
    /\ i = 1
    /\ currentTaskStartId = 0
    /\ allGeneratedTasksByDocId = [d \in {} |-> <<>>]
    /\ generatedTasksForOutput = <<>>
    /\ calls = <<>>
    /\ skipped = {}
    /\ err = "none"
    /\ \E n \in 2..MaxTasks :
         \E ids \in IdOrders(n), kinds \in [1..n -> Kinds], o \in MergeOptions :
           \E E \in EdgeSets(n, o) :
              /\ mg = [MergeStart(MergeInput(n, ids, kinds, E), o.useLLM, o.escalate)
                          EXCEPT !.similarityThreshold = o.similarityThreshold]
              /\ store = MergeStore(MergeInput(n, ids, kinds, E))
    /\ store0 = store

\* lines 330-374: the hash tier of the current group, then the tasks left for
\* the similarity tier
HashTier ==
    /\ mg.phase = "hash"
    /\ LET group == mg.duplicateGroups[mg.g] IN
       IF \E k \in DOMAIN group : generateTaskHashThrows(group[k])
       THEN mg' = [mg EXCEPT !.phase = "threw"]
       ELSE \E m1 \in {MergeHashGroups(mg, HashGroupsOf(group))} :
            \E remaining \in {SelectSeq(group, LAMBDA t :
                        /\ t.id \notin DOMAIN m1.mergedIdMap
                        /\ t.id \in Range(Ids(m1.processedTasks)))} :
                IF Len(remaining) > 1
                THEN mg' = [m1 EXCEPT !.phase = "semantic", !.remainingInGroup = remaining,
                                      !.i = 1, !.j = 2]
                ELSE mg' = AfterPair([m1 EXCEPT !.i = 0, !.j = 0], 0)
    /\ UNCHANGED hvars

PairA == mg.remainingInGroup[mg.i]
PairB == mg.remainingInGroup[mg.j]
PairSkipped == PairA.id \in DOMAIN mg.mergedIdMap \/ PairB.id \in DOMAIN mg.mergedIdMap
PairSimilarity == calculateSemanticSimilarity(PairA, PairB)
\* mutant: every pair below the threshold is put to the arbiter
AsksAnyPairBelowThreshold ==
    /\ ~PairSkipped
    /\ ~AtLeast(PairSimilarity, mg.similarityThreshold)

\* line 390
AsksLLM ==
    /\ ~PairSkipped
    /\ ~AtLeast(PairSimilarity, mg.similarityThreshold)
    /\ mg.useLLM
    /\ Above(PairSimilarity, LLMBandFloor)

\* lines 410-441: taskA and taskB are merged, taskB leaves remainingInGroup
MergePair(m, strategy) ==
    LET m1 == RecordMerge(m, mergeTasks(<<PairA, PairB>>, m.options), <<PairA, PairB>>,
                          <<PairB.id>>, strategy)
        rest == RemoveAt(m.remainingInGroup, m.j)
    IN  AfterPair([m1 EXCEPT !.remainingInGroup = rest], Len(rest))

\* lines 378-387 and 410-441: one pair of the similarity tier, decided without
\* the arbiter
SimilarityTier ==
    /\ mg.phase = "semantic"
    /\ ~AsksLLM
    /\ IF ~PairSkipped /\ AtLeast(PairSimilarity, mg.similarityThreshold)
       THEN mg' = MergePair(mg, "semantic")
       ELSE mg' = AfterPair(mg, Len(mg.remainingInGroup))
    /\ UNCHANGED hvars

\* what confirmMergeWithLLM can return: the object of the service, or the
\* answer of its catch block (lines 119-127) when the call failed
LLMAnswers ==
    {[shouldMerge |-> TRUE, confidence |-> 90, failed |-> FALSE],
     [shouldMerge |-> TRUE, confidence |-> 70, failed |-> FALSE],
     [shouldMerge |-> FALSE, confidence |-> 90, failed |-> FALSE],
     [shouldMerge |-> FALSE, confidence |-> 0, failed |-> TRUE]}

\* line 401: llmResult.shouldMerge && llmResult.confidence > 0.7
acceptsLLMResult(llmResult) ==
    llmResult.shouldMerge /\ llmResult.confidence > LLMConfidenceFloor

\* lines 389-441: a borderline pair is put to the arbiter
LLMTier ==
    /\ mg.phase = "semantic"
    /\ AsksLLM
    /\ \E llmResult \in LLMAnswers :
         LET m1 == [mg EXCEPT !.llmDecisions = @ + 1,
                              !.llmAsked = Append(@, [taskA |-> PairA.id, taskB |-> PairB.id,
                                                      llmResult |-> llmResult])]   \* history
         IN
         IF acceptsLLMResult(llmResult)
         THEN mg' = MergePair(m1, "llm")
         ELSE mg' = AfterPair(m1, Len(mg.remainingInGroup))
    /\ UNCHANGED hvars

\* lines 447-456
ReindexAndReturn ==
    /\ mg.phase = "reindex"
    /\ mg' = [mg EXCEPT !.phase = "done",
                        !.tasks = ReindexWrites(@, mg.processedTasks, mg.mergedIdMap),
                        !.processedTasks = reindexDependencies(@, mg.mergedIdMap)]
    /\ UNCHANGED hvars

\* mergeTasksDirect lines 99-111: a dry run returns the analysis of the
\* returned run and changes nothing (no step of its own)

\* mergeTasksDirect lines 113-138: the tag's tasks are replaced in the data
\* read from tasks.json and the file is written back
WriteMergedTasks ==
    /\ mg.phase = "done"
    /\ mg' = [mg EXCEPT !.phase = "written"]
    /\ store' = writeTag(store, mg.processedTasks)
    /\ UNCHANGED <<documentSources, options, store0, pc, sortedDocuments, i,
                   currentTaskStartId, allGeneratedTasksByDocId,
                   generatedTasksForOutput, calls, skipped, err>>

NextMerge ==
    \/ HashTier
    \/ SimilarityTier
    \/ LLMTier
    \/ ReindexAndReturn
    \/ WriteMergedTasks

\* either entry point of the pipeline on one tasks.json
NextStore == NextHierarchy \/ NextMerge
InitStore == InitHierarchy \/ InitMerge
SpecStore == InitStore /\ [][NextStore]_vars

SpecMerge == InitMerge /\ [][NextMerge]_vars

(***************************************************************************)
(* Properties of processDocumentHierarchy                                  *)
(***************************************************************************)
ParentOf(ds, docId) ==
    IF docId \in DocIdSet(ds) THEN DocById(ds, docId).parentId ELSE NoParent

RECURSIVE Climb(_, _, _)
Climb(ds, docId, n) == IF n = 0 THEN docId ELSE Climb(ds, ParentOf(ds, docId), n - 1)

\* docId is reached again by following parentId links from it
OnParentCycle(ds, docId) == \E n \in 1..Len(ds) : Climb(ds, docId, n) = docId
HasParentCycle(ds) == \E k \in DOMAIN ds : OnParentCycle(ds, ds[k].id)
AllParentsConfigured(ds) ==
    \A k \in DOMAIN ds : ds[k].parentId \in {NoParent} \cup DocIdSet(ds)
HasUnknownParent(d) == d.parentId \notin {NoParent} \cup DocIdSet(documentSources)

AbortedByGenerator == pc = "failed" /\ err = "generator"

\* the sources the loop has dealt with so far, in sorted order
HandledPrefix ==
    SubSeq(Ids(sortedDocuments), 1, IF AbortedByGenerator THEN i ELSE i - 1)
CallDocs == [k \in DOMAIN calls |-> calls[k].doc]

\* every parentId is absent or configured and the links hold no cycle (as
\* in every list whose parents stand before their children)
WellFormedHierarchy(ds) ==
    \/ ForestOfEarlierParents(ds)
    \/ (AllParentsConfigured(ds) /\ ~HasParentCycle(ds))

\* C1: for a configuration with unique ids whose parentIds are absent or
\* configured and acyclic, the sorted order holds every configured source
\* exactly once, every source comes strictly after its parent, and the
\* generator is invoked in that order (for the sources whose file exists).
C1_ParentBeforeChild ==
    (pc # "start" /\ WellFormedHierarchy(documentSources)) =>
        /\ Len(sortedDocuments) = Len(documentSources)
        /\ Range(sortedDocuments) = Range(documentSources)
        /\ \A k \in DOMAIN sortedDocuments :
              sortedDocuments[k].parentId # NoParent =>
                 \E j \in 1..(k-1) : sortedDocuments[j].id = sortedDocuments[k].parentId
        /\ CallDocs = SelectSeq(HandledPrefix, LAMBDA d : d \notin skipped)

\* a grandchild listed first, its parent second, the root last: all three
\* were generated, root first
C1_Witness ==
    /\ pc = "done"
    /\ Len(documentSources) = 3
    /\ documentSources[1].parentId = "b"
    /\ documentSources[2].parentId = "c"
    /\ documentSources[3].parentId = NoParent
    /\ CallDocs = <<"c", "b", "a">>

C3_ForceClearsOnce ==
    (options.force /\ ~options.append /\ store0[TargetTag] # <<>>) =>
        /\ \A k \in DOMAIN calls : calls[k].force = (k = 1)
        /\ (pc = "done" /\ generatedTasksForOutput # <<>>) =>
              /\ store[TargetTag] = generatedTasksForOutput
              /\ Ids(store[TargetTag]) = [k \in DOMAIN store[TargetTag] |-> k]

UniqueIds(tasks) ==
    \A j, k \in DOMAIN tasks : tasks[j].id = tasks[k].id => j = k

\* C4: after a completed run the target tag holds no two tasks with the same id.
C4_UniqueIdsAfterRun == pc = "done" => UniqueIds(store[TargetTag])

TagWasCleared ==
    \E k \in DOMAIN calls : calls[k].force /\ calls[k].outcome = "ok"

TasksOfCall(k) ==
    IF calls[k].outcome = "ok" THEN allGeneratedTasksByDocId[calls[k].doc] ELSE <<>>
StartIdAfterCall(k) == calls[k].currentTaskStartId + Len(TasksOfCall(k))
FailedDocs == {calls[k].doc : k \in {c \in DOMAIN calls : calls[c].outcome = "threw"}}

\* C11: with failFast unset or true a throwing generator invocation is the
\* last one of the run and the run fails with the generator's error; with
\* failFast = false the invocations go on in sorted order, a failed source has
\* no task in the tag or in the run's output, and the start id handed to the
\* next invocation is the one the failed invocation was given.
C11_FailFastAndContinue ==
    /\ options.failFast \in {"undefined", "true"} =>
          \A k \in DOMAIN calls :
             calls[k].outcome = "threw" =>
                k = Len(calls) /\ pc = "failed" /\ err = "generator"
    /\ options.failFast = "false" =>
          /\ err # "generator"
          /\ CallDocs = SelectSeq(HandledPrefix, LAMBDA d : d \notin skipped)
          /\ \A t \in Range(store[TargetTag]) \cup Range(generatedTasksForOutput) :
                t.sourceDocumentId \notin FailedDocs
          /\ FailedDocs \cap DOMAIN allGeneratedTasksByDocId = {}
    /\ \A k \in DOMAIN calls :
          StartIdAfterCall(k) =
             IF k < Len(calls) THEN calls[k + 1].currentTaskStartId
             ELSE currentTaskStartId

\* failFast = false: the first source failed, the second was generated with
\* the start id the first one had been given
C11_Witness ==
    /\ pc = "done"
    /\ options.failFast = "false"
    /\ Len(calls) = 2
    /\ calls[1].outcome = "threw"
    /\ calls[2].outcome = "ok"
    /\ calls[2].currentTaskStartId = calls[1].currentTaskStartId
    /\ Len(TasksOfCall(2)) > 0

TaskKey(t) == <<t.id, t.sourceDocumentId>>
\* the tasks of this run's output that were generated from docId
GeneratedFrom(docId) ==
    SelectSeq(generatedTasksForOutput, LAMBDA t : t.sourceDocumentId = docId)
CallOf(docId) == {k \in DOMAIN calls : calls[k].doc = docId}

\* C12: the parent context of every generator invocation is the list of the
\* tasks this run generated from the source's direct parent, and nothing
\* else; it is empty for a source without parent and for a source whose
\* parent was skipped, failed or generated no task.
C12_ParentContextIsDirectParent ==
    \A k \in DOMAIN calls :
        LET parent == ParentOf(documentSources, calls[k].doc)
            ctx == calls[k].parentTasksContext
        IN  /\ [c \in DOMAIN ctx |-> TaskKey(ctx[c])] =
                  [c \in DOMAIN GeneratedFrom(parent) |-> TaskKey(GeneratedFrom(parent)[c])]
            /\ (parent = NoParent \/ parent \in skipped \/ parent \in FailedDocs) =>
                  ctx = <<>>
            /\ \A c \in DOMAIN ctx : ctx[c] \notin Range(store0[TargetTag])

\* a grandchild was generated with its parent's tasks as context while the
\* grandparent had generated tasks too and the tag held tasks before the run
C12_Witness ==
    /\ Len(calls) = 3
    /\ store0[TargetTag] # <<>>
    /\ ParentOf(documentSources, calls[3].doc) = calls[2].doc
    /\ ParentOf(documentSources, calls[2].doc) = calls[1].doc
    /\ TasksOfCall(1) # <<>>
    /\ calls[3].parentTasksContext # <<>>
    /\ calls[3].parentTasksContext = TasksOfCall(2)

ConflictingRun ==
    store0[TargetTag] # <<>> /\ ~options.force /\ ~options.append

\* C13 as claimed: a run on a tag that holds tasks, with neither force nor
\* append, fails before any generator invocation and leaves the store as it
\* was.
C13_ConflictAborts ==
    ConflictingRun =>
        /\ pc \in {"start", "ids", "failed"}
        /\ calls = <<>>
        /\ store = store0

\* C13 as amended: the same, for a run with at least one configured source
\* (with none configured the run returns success before the tag is looked at).
C13_ConflictAbortsWithSources ==
    (ConflictingRun /\ documentSources # <<>>) =>
        /\ pc \in {"start", "ids", "failed"}
        /\ calls = <<>>
        /\ store = store0

\* a run with sources on a tag that holds tasks ended with the conflict error
C13_Witness ==
    /\ ConflictingRun
    /\ Len(documentSources) > 1
    /\ pc = "failed"
    /\ err = "conflict"
    /\ sortedDocuments # <<>>

(***************************************************************************)
(* Properties of mergeTasksInTag                                           *)
(***************************************************************************)
MergeReturned == mg.phase = "done"
mergedTasks == mg.processedTasks
MergedIds == Range(Ids(mergedTasks))
InputIds == Range(Ids(mg.tasks))
InputTask(id) == mg.tasks[IndexOf(Ids(mg.tasks), id)]
SetMin(S) == CHOOSE x \in S : \A y \in S : x <= y
RemovedIds == UNION {Range(mg.mergedGroups[e].mergedFrom) : e \in DOMAIN mg.mergedGroups}

\* C6: every merge event of a returned run names as keptId the lowest id of
\* the group it merged, keptId is the id of a task of mergedTasks that
\* carries the event's mergedFrom ids, and no id of mergedFrom is the id of a
\* task of mergedTasks.
C6_MergeEventsConsistent ==
    MergeReturned =>
        \A e \in DOMAIN mg.mergedGroups :
            LET ev == mg.mergedGroups[e] IN
            /\ ev.keptId = SetMin(ev.group)
            /\ \E k \in DOMAIN mergedTasks :
                 /\ mergedTasks[k].id = ev.keptId
                 /\ mergedTasks[k].mergedFrom # <<>>
            /\ Range(ev.mergedFrom) \cap MergedIds = {}

RECURSIVE AbsorbedWithin(_, _)
\* the ids merged into S by the events of the run, through any chain
AbsorbedWithin(S, fuel) ==
    LET more == UNION {Range(mg.mergedGroups[e].mergedFrom) :
                         e \in {x \in DOMAIN mg.mergedGroups : mg.mergedGroups[x].keptId \in S}}
    IN  IF fuel = 0 \/ more \subseteq S THEN S ELSE AbsorbedWithin(S \cup more, fuel - 1)
Absorbed(id) == AbsorbedWithin({id}, Len(mg.tasks)) \ {id}
Survivors == {k \in DOMAIN mergedTasks :
                \E e \in DOMAIN mg.mergedGroups : mg.mergedGroups[e].keptId = mergedTasks[k].id}

\* C7: in a returned run, a task that survived a merge lists in mergedFrom
\* exactly the input ids absorbed into it, directly or through earlier merges,
\* and its dependencies hold every dependency of its original and of every
\* absorbed task, except its own id and the ids the run rewrote.
C7_ProvenanceAndDependencies ==
    MergeReturned =>
        \A k \in Survivors :
            LET T == mergedTasks[k] IN
            /\ Range(T.mergedFrom) = Absorbed(T.id)
            /\ \A u \in Absorbed(T.id) \cup {T.id} :
                 \A d \in Range(InputTask(u).dependencies) :
                    d = T.id \/ d \in DOMAIN mg.mergedIdMap \/ d \in Range(T.dependencies)

\* C8: in a returned run, no dependency of a task of mergedTasks is an id that
\* was merged away, none is the task's own id, and none is listed twice.
C8_DependenciesReindexed ==
    MergeReturned =>
        \A k \in DOMAIN mergedTasks :
            LET deps == mergedTasks[k].dependencies IN
            /\ Range(deps) \cap RemovedIds = {}
            /\ mergedTasks[k].id \notin Range(deps)
            /\ \A a, b \in DOMAIN deps : deps[a] = deps[b] => a = b

DependencyEdges(tasks) ==
    UNION {{<<tasks[k].id, d>> : d \in Range(tasks[k].dependencies)} : k \in DOMAIN tasks}
RECURSIVE ReachableFrom(_, _, _)
ReachableFrom(S, E, fuel) ==
    LET more == {e[2] : e \in {x \in E : x[1] \in S}}
    IN  IF fuel = 0 \/ more \subseteq S THEN S \cup more
        ELSE ReachableFrom(S \cup more, E, fuel - 1)
Acyclic(tasks) ==
    LET E == DependencyEdges(tasks) IN
    \A e \in E : e[1] \notin ReachableFrom({e[2]}, E, Cardinality(E))

\* C9: a run given an acyclic dependency graph returns mergedTasks with an
\* acyclic dependency graph.
C9_AcyclicStaysAcyclic ==
    (MergeReturned /\ Acyclic(mg.tasks)) => Acyclic(mergedTasks)

C15_InputNotMutated ==
    mg.phase \in {"hash", "semantic", "reindex", "done", "written"} =>
        mg.tasks = store0[TargetTag]

\* a returned run with escalate that merged tasks, raised the merged task's
\* priority and rewrote a dependency of a task it did not merge
C15_Witness ==
    /\ mg.phase = "done"
    /\ mg.options.escalate
    /\ \E k \in DOMAIN mg.processedTasks :
          /\ mg.processedTasks[k].mergedFrom # <<>>
          /\ mg.processedTasks[k].priority = "high"
    /\ \E k \in DOMAIN mg.processedTasks :
          /\ mg.processedTasks[k].mergedFrom = <<>>
          /\ mg.processedTasks[k].dependencies # InputTask(mg.processedTasks[k].id).dependencies

(***************************************************************************)
(* mergeTasks on its own: a group of tasks handed to mergeTasks, as the    *)
(* tiers of mergeTasksInTag and the unit tests do.                         *)
(***************************************************************************)
MaxGroup == 2           \* tasks in a group handed to mergeTasks

GroupShapes == {"plain", "prdLogin", "prdHome", "uxLogin", "techShort", "merged"}

\* the provenance, metadata and description of a task of the given shape
GroupTask(id, shape, priority) ==
    LET base == [id |-> id,
                 title |-> <<"Login">>,
                 description |-> IF shape = "techShort" THEN <<"form">>
                                 ELSE <<"authentication", "form", "page">>,
                 dependencies |-> <<>>]
        prov == CASE shape = "plain" -> base
                  [] shape \in {"prdLogin", "prdHome"} ->
                        Put(Put(base, "sourceDocumentType", Scalar("PRD")),
                            "sourceDocumentId", Scalar("doc1"))
                  [] shape = "uxLogin" ->
                        Put(Put(base, "sourceDocumentType", Scalar("UX_SPEC")),
                            "sourceDocumentId", Scalar("doc2"))
                  [] shape = "techShort" ->
                        Put(Put(base, "sourceDocumentType", Scalar("TECH_SPEC")),
                            "sourceDocumentId", Scalar("doc2"))
                  [] shape = "merged" ->
                        Put(Put(base, "sourceDocumentType", ArrayOf(<<"PRD", "UX_SPEC">>)),
                            "sourceDocumentId", ArrayOf(<<"doc1", "doc2">>))
        meta == CASE shape = "prdLogin" ->
                        Put(Put(prov, "screen", Scalar("login")), "epicId", Scalar("E1"))
                  [] shape = "uxLogin" -> Put(prov, "screen", Scalar("login"))
                  [] shape = "prdHome" ->
                        Put(Put(prov, "screen", Scalar("home")), "epicId", Scalar("E2"))
                  [] shape = "merged" -> Put(prov, "screen", ArrayOf(<<"login", "home">>))
                  [] OTHER -> prov
    IN  Put(meta, "priority", priority)

\* the orders in which the ids 1..n can stand in the group
IdPermutations(n) == {f \in [1..n -> 1..n] : \A a, b \in 1..n : f[a] = f[b] => a = b}

InitMergeTasks ==
    /\ documentSources = <<>>
    /\ options = DefaultOptions
    /\ pc = "idle"
    /\ sortedDocuments = <<>>
    /\ i = 1
    /\ currentTaskStartId = 0
    /\ allGeneratedTasksByDocId = [d \in {} |-> <<>>]
    /\ generatedTasksForOutput = <<>>
    /\ calls = <<>>
    /\ skipped = {}
    /\ err = "none"
    /\ store = EmptyStore
    /\ store0 = store
    /\ \E n \in 1..MaxGroup :
         \E ids \in IdPermutations(n), shapes \in [1..n -> GroupShapes],
            ps \in [1..n -> Priorities \cup {NoPriority}], escalate \in BOOLEAN :
              mg = [phase |-> "group",
                    taskGroup |-> [k \in 1..n |-> GroupTask(ids[k], shapes[k], ps[k])],
                    options |-> [escalate |-> escalate],
                    result |-> <<>>]

\* mergeTasks lines 137-139, and the TypeError of the rule engine at line 251
mergeTasksThrows(taskGroup, mergeOptions) ==
    \/ Len(taskGroup) < 2
    \/ mergeOptions.escalate /\ escalateTaskPriorityThrows(consolidate(taskGroup))

MergeGroupThrows ==
    /\ mg.phase = "group"
    /\ mergeTasksThrows(mg.taskGroup, mg.options)
    /\ mg' = [mg EXCEPT !.phase = "thrown"]
    /\ UNCHANGED hvars

\* mergeTasks lines 141-263
MergeGroup ==
    /\ mg.phase = "group"
    /\ ~mergeTasksThrows(mg.taskGroup, mg.options)
    /\ mg' = [mg EXCEPT !.phase = "merged",
                        !.result = mergeTasks(mg.taskGroup, mg.options)]
    /\ UNCHANGED hvars

NextMergeTasks == MergeGroupThrows \/ MergeGroup

SpecMergeTasks == InitMergeTasks /\ [][NextMergeTasks]_vars

(***************************************************************************)
(* Properties of mergeTasks                                                *)
(***************************************************************************)
MergedGroup == mg.phase = "merged"

\* the maximum priority over the group, a missing priority counting as medium
GroupMaxPriority ==
    CHOOSE p \in Priorities :
        /\ \E k \in DOMAIN mg.taskGroup : PriorityOrDefault(mg.taskGroup[k].priority) = p
        /\ \A k \in DOMAIN mg.taskGroup :
              PRIORITY_ORDER(PriorityOrDefault(mg.taskGroup[k].priority)) <= PRIORITY_ORDER(p)

\* the task of the group with the lowest id
PrimaryOfGroup ==
    mg.taskGroup[CHOOSE k \in DOMAIN mg.taskGroup :
                    \A j \in DOMAIN mg.taskGroup : mg.taskGroup[k].id <= mg.taskGroup[j].id]

\* the distinct values of field f over the group
GroupValues(f) ==
    UNION {Range(ValueOf(mg.taskGroup[k], f).values) : k \in DOMAIN mg.taskGroup}

\* C16: on a merged task sourceDocumentId, sourceDocumentType and every
\* metadata field with a value hold the deduplicated union of the group's
\* values, as the plain scalar when the union has one element and as an array
\* only when it has two or more.
C16_UnionScalarWhenSingle ==
    MergedGroup =>
        \A f \in {"sourceDocumentId", "sourceDocumentType"} \cup Range(metadataFields) :
            GroupValues(f) # {} =>
                LET v == ValueOf(mg.result, f) IN
                /\ Range(v.values) = GroupValues(f)
                /\ Len(v.values) = Cardinality(GroupValues(f))
                /\ v.array <=> Cardinality(GroupValues(f)) >= 2

\* C17: the priority of the merged task is the maximum priority over the
\* group (low < medium < high, missing = medium); with options.escalate the
\* final priority is that maximum or higher.
C17_PriorityIsMaximum ==
    MergedGroup =>
        /\ ~mg.options.escalate => mg.result.priority = GroupMaxPriority
        /\ mg.options.escalate =>
              PRIORITY_ORDER(mg.result.priority) >= PRIORITY_ORDER(GroupMaxPriority)

\* an escalating merge whose primary task is below the group's maximum and
\* whose result is above it
C17_Witness ==
    /\ MergedGroup
    /\ mg.options.escalate
    /\ PRIORITY_ORDER(PriorityOrDefault(PrimaryOfGroup.priority)) < PRIORITY_ORDER(GroupMaxPriority)
    /\ PRIORITY_ORDER(mg.result.priority) > PRIORITY_ORDER(GroupMaxPriority)

PrioritiesDiffer ==
    \E a, b \in DOMAIN mg.taskGroup :
        PRIORITY_ORDER(PriorityOrDefault(mg.taskGroup[a].priority))
            < PRIORITY_ORDER(PriorityOrDefault(mg.taskGroup[b].priority))

UpgradeNoted == PriorityNote(GroupMaxPriority) \in Range(TextOf(mg.result, "estimationNote"))

AskedSimilarity(q) == calculateSemanticSimilarity(InputTask(q.taskA), InputTask(q.taskB))
Affirmed(q) == q.llmResult.shouldMerge /\ q.llmResult.confidence > LLMConfidenceFloor
MergedPairs == {mg.mergedGroups[e].group : e \in DOMAIN mg.mergedGroups}

MaxKeywords == 3        \* keywords of one type found in a document

\* the keys of CLASSIFICATION_PATTERNS, in their order
PatternTypes == <<"PRD", "UX_SPEC", "SDD", "TECH_SPEC", "INFRA_SPEC", "DESIGN_SYSTEM">>
\* getSupportedDocumentTypes(): the keys of DOCUMENT_ADAPTERS, in their order
SupportedDocumentTypes ==
    <<"PRD", "PRODUCT_REQUIREMENTS", "UX_SPEC", "DESIGN_SPEC", "UI_SPEC", "SDD",
      "SOFTWARE_DESIGN", "TECH_SPEC", "ARCHITECTURE">>
\* classifyWithRegex lines 213-218: the supported types that have patterns
ScoredTypes == SelectSeq(SupportedDocumentTypes, LAMBDA t : t \in Range(PatternTypes))

KeywordCount(t) ==
    CASE t = "PRD" -> 15 [] t = "UX_SPEC" -> 19 [] t = "SDD" -> 17
      [] t = "TECH_SPEC" -> 18 [] t = "INFRA_SPEC" -> 20 [] t = "DESIGN_SYSTEM" -> 15
SectionPatternCount(t) == IF t \in {"SDD", "INFRA_SPEC"} THEN 3 ELSE 2

\* calculateRegexScore: (0.4 * keywords / all + 0.3 * title + 0.3 * sections / all)
\* / 1.0 * weightMultiplier, the multiplier being 1.0 for every type
calculateRegexScore(doc, t) ==
    LET K == KeywordCount(t)
        S == SectionPatternCount(t)
        f == doc[t]
    IN  <<4 * f.keywords * S + (IF f.title THEN 3 * K * S ELSE 0) + 3 * f.sections * K,
          10 * K * S>>

RECURSIVE BestOf(_, _, _)
\* classifyWithRegex lines 220-229: the first type with the highest score,
\* OTHER when every score is 0
BestOf(doc, types, best) ==
    IF types = <<>> THEN best
    ELSE BestOf(doc, Tail(types),
                CHOOSE r \in
                    {IF score[1] * b.confidence[2] > b.confidence[1] * score[2]
                     THEN [type |-> Head(types), confidence |-> score, source |-> "regex"]
                     ELSE b : b \in {best}, score \in {calculateRegexScore(doc, Head(types))}} :
                    TRUE)

classifyWithRegex(doc) ==
    BestOf(doc, ScoredTypes, [type |-> "OTHER", confidence |-> <<0, 1>>, source |-> "regex"])

\* what generateObjectService can do in classifyWithLLM: throw, answer
\* without a type, or answer with a type and a confidence
LLMOutcomes ==
    {[kind |-> "threw"], [kind |-> "invalid"]}
        \cup [kind : {"answer"}, type : {"PRD", "INFRA_SPEC", "OTHER"},
              confidence : {<<0, 1>>, <<9, 10>>}]

\* classifyWithLLM lines 276-312
classifyWithLLM(outcome) ==
    IF outcome.kind \in {"threw", "invalid"}
    THEN [type |-> "OTHER", confidence |-> <<0, 1>>, source |-> "llm"]
    ELSE [type |-> IF outcome.type \in Range(SupportedDocumentTypes) THEN outcome.type
                   ELSE "OTHER",
          confidence |-> outcome.confidence,
          source |-> "llm"]

DefaultThreshold == 65          \* threshold = 0.65, in percent
Thresholds == {0, DefaultThreshold, 100}

\* what the patterns of type t can find in a document: a line matching a
\* section pattern holds a keyword of the type
TypeFeatures(t) ==
    {f \in [keywords : 0..MaxKeywords, title : BOOLEAN, sections : 0..SectionPatternCount(t)] :
        f.sections <= f.keywords}
NoFeatures == [keywords |-> 0, title |-> FALSE, sections |-> 0]

NoClassification == [type |-> "OTHER", confidence |-> <<0, 1>>, source |-> "none"]

\* the documentText argument is a text, or one of the inputs turned down at
\* lines 332-342; a text speaks the vocabulary of at most two of the types
InitClassify ==
    /\ documentSources = <<>>
    /\ options = DefaultOptions
    /\ pc = "idle"
    /\ sortedDocuments = <<>>
    /\ i = 1
    /\ currentTaskStartId = 0
    /\ allGeneratedTasksByDocId = [d \in {} |-> <<>>]
    /\ generatedTasksForOutput = <<>>
    /\ calls = <<>>
    /\ skipped = {}
    /\ err = "none"
    /\ store = EmptyStore
    /\ store0 = store
    /\ \E input \in {"text", "empty", "whitespace", "nonString"}, useLLMFallback \in BOOLEAN, threshold \in Thresholds :
         \E a \in DOMAIN PatternTypes :
           \E b \in IF input = "text" THEN {k \in DOMAIN PatternTypes : k > a} ELSE {a} :
             \E fa \in IF input = "text" THEN TypeFeatures(PatternTypes[a]) ELSE {NoFeatures} :
               \E fb \in IF input = "text" THEN TypeFeatures(PatternTypes[b]) ELSE {NoFeatures} :
                 mg = [phase |-> "classify",
                       input |-> input,
                       documentText |->
                           [t \in Range(PatternTypes) |->
                               IF t = PatternTypes[a] THEN fa
                               ELSE IF t = PatternTypes[b] THEN fb ELSE NoFeatures],
                       options |-> [useLLMFallback |-> useLLMFallback, threshold |-> threshold],
                       regexResult |-> NoClassification,
                       llmCalls |-> 0,
                       llmOutcome |-> [kind |-> "none"],
                       result |-> NoClassification]

\* classifyDocument lines 332-342: no text, not a string, or only white space
ClassifyEmpty ==
    /\ mg.phase = "classify"
    /\ mg.input # "text"
    /\ mg' = [mg EXCEPT !.phase = "returned", !.result = NoClassification]
    /\ UNCHANGED hvars

\* mutant: the regex result is only final when there is no LLM fallback
regexConclusiveWithoutFallback(regexResult, classifyOptions) ==
    AtLeast(regexResult.confidence, classifyOptions.threshold) /\ ~classifyOptions.useLLMFallback

\* line 349: regexResult.confidence >= threshold
regexConclusive(regexResult, classifyOptions) ==
    AtLeast(regexResult.confidence, classifyOptions.threshold)

\* classifyDocument lines 344-354 and 364-365: the regex phase
ClassifyRegex ==
    /\ mg.phase = "classify"
    /\ mg.input = "text"
    /\ \E regexResult \in {classifyWithRegex(mg.documentText)} :
       IF ~regexConclusive(regexResult, mg.options) /\ mg.options.useLLMFallback
       THEN mg' = [mg EXCEPT !.phase = "llm", !.regexResult = regexResult]
       ELSE mg' = [mg EXCEPT !.phase = "returned", !.regexResult = regexResult,
                             !.result = regexResult]
    /\ UNCHANGED hvars

\* mutant: whatever classifyWithLLM returns is taken
llmAnswered(llmResult) == TRUE

\* line 358: llmResult.confidence > 0
llmSucceeded(llmResult) == llmResult.confidence[1] > 0

\* classifyDocument lines 353-365: the LLM phase
ClassifyLLM ==
    /\ mg.phase = "llm"
    /\ \E outcome \in LLMOutcomes :
         \E llmResult \in {classifyWithLLM(outcome)} :
            mg' = [mg EXCEPT !.phase = "returned",
                             !.llmCalls = @ + 1,
                             !.llmOutcome = outcome,        \* history
                             !.result = IF llmSucceeded(llmResult) THEN llmResult
                                        ELSE mg.regexResult]
    /\ UNCHANGED hvars

NextClassify == ClassifyEmpty \/ ClassifyRegex \/ ClassifyLLM

SpecClassify == InitClassify /\ [][NextClassify]_vars

(***************************************************************************)
(* Properties of classifyDocument                                          *)
(***************************************************************************)
\* C20: whenever the winning regex confidence is greater than or equal to
\* the threshold, the LLM classifier is never invoked and the regex result
\* is returned with source = regex, whatever useLLMFallback is.
C20_ConclusiveRegexNeverAsksLLM ==
    mg.input = "text"
        /\ AtLeast(classifyWithRegex(mg.documentText).confidence, mg.options.threshold) =>
        /\ mg.llmCalls = 0
        /\ mg.phase # "llm"
        /\ mg.phase = "returned" =>
              /\ mg.result = classifyWithRegex(mg.documentText)
              /\ mg.result.source = "regex"

\* a document classified as UX_SPEC by the patterns with a confidence at or
\* above the default threshold, the LLM fallback being enabled
C20_Witness ==
    /\ mg.phase = "returned"
    /\ mg.options.useLLMFallback
    /\ mg.options.threshold = DefaultThreshold
    /\ mg.result.type = "UX_SPEC"
    /\ mg.result.source = "regex"
    /\ AtLeast(mg.result.confidence, mg.options.threshold)

LLMFailed ==
    \/ mg.llmOutcome.kind \in {"threw", "invalid"}
    \/ (mg.llmOutcome.kind = "answer" /\ mg.llmOutcome.confidence[1] <= 0)

\* C21: classifyDocument never raises: when the LLM classifier throws or
\* returns a confidence that is not positive, the result is the
\* below-threshold regex result with source = regex; for empty,
\* whitespace-only or non-string input the result is {OTHER, 0, none} and the
\* LLM is not called.
C21_ClassifierDegrades ==
    /\ mg.phase \in {"classify", "llm", "returned"}
    /\ (mg.phase = "returned" /\ mg.llmCalls > 0 /\ LLMFailed) =>
          /\ mg.result = classifyWithRegex(mg.documentText)
          /\ mg.result.source = "regex"
          /\ ~AtLeast(mg.result.confidence, mg.options.threshold)
    /\ mg.input # "text" =>
          /\ mg.llmCalls = 0
          /\ mg.phase # "llm"
          /\ mg.phase = "returned" => mg.result = NoClassification

\* the LLM call threw and the PRD classification of the patterns, below the
\* threshold, was returned
C21_Witness ==
    /\ mg.phase = "returned"
    /\ mg.llmCalls = 1
    /\ mg.llmOutcome.kind = "threw"
    /\ mg.result.type = "PRD"
    /\ mg.result.source = "regex"
    /\ mg.result.confidence[1] > 0

\* the types whose patterns find something in the text
MatchedTypes ==
    {t \in Range(PatternTypes) : calculateRegexScore(mg.documentText, t)[1] > 0}

\* C22: each of the six types can be the result: a text whose patterns match
\* only one type gets that type from the regex scoring, and an LLM answer
\* naming one of the six types is returned with that type.
C22_AllSixTypesReturned ==
    (mg.phase = "returned" /\ mg.input = "text") =>
        /\ \A t \in Range(PatternTypes) :
              (mg.result.source = "regex" /\ MatchedTypes = {t}) => mg.result.type = t
        /\ (mg.llmOutcome.kind = "answer" /\ mg.llmOutcome.confidence[1] > 0
               /\ mg.llmOutcome.type \in Range(PatternTypes)) =>
              mg.result.type = mg.llmOutcome.type

(***************************************************************************)
(* The rule engine applied to tasks: escalateTaskPriority on one task,     *)
(* escalateAfterMerge on one task, escalateAllTasks on a list.             *)
(***************************************************************************)
MaxEscalated == 2       \* tasks in a list handed to escalateAllTasks

\* the values a task of the rule engine's inputs takes per property
EscalationChoices ==
    [sourceDocumentType : {"none", "PRD", "UX_SPEC", "TECH_SPEC"},
     testStrategy : {<<>>, <<"tests">>, <<"implement", "authentication", "tests">>},
     performanceGoal : {<<>>, Blank, <<"page">>},
     reliabilityTarget : {<<>>, <<"page">>},
     layer : {"none", "presentation", "infra"},
     epicId : {NoValue, Scalar("E1"), ArrayOf(<<"E1", "E2">>)},
     title : {<<"page">>, <<"epic", "page">>, <<"Login">>},
     description : {"absent", "empty", "short", "long", "refactor"},
     dependencies : {<<>>, <<1>>},
     priority : Priorities \cup {NoPriority}]

\* the choices of the tasks of a list: the document type, the epic, the
\* description and the priority vary
ListChoices ==
    {c \in [sourceDocumentType : {"PRD", "TECH_SPEC"},
            testStrategy : {<<>>},
            performanceGoal : {<<>>},
            reliabilityTarget : {<<>>},
            layer : {"none"},
            epicId : {Scalar("E1"), ArrayOf(<<"E1", "E2">>)},
            title : {<<"page">>},
            description : {"short", "long"},
            dependencies : {<<>>},
            priority : {NoPriority, "low", "medium", "high"}] :
        c.epicId.array => c.description = "long" /\ c.priority = "medium"}

\* the task object of a choice: a property is set only where it has a value
EscalationTask(id, c) ==
    LET descriptionText ==
            CASE c.description = "short" -> <<"form">>
              [] c.description = "long" -> <<"implement", "logout", "page", "tests">>
              [] c.description = "refactor" -> <<"refactor", "logout", "page", "tests">>
              [] OTHER -> <<>>
        t0 == [id |-> id, title |-> c.title, dependencies |-> c.dependencies,
               priority |-> c.priority]
        t1 == IF c.description = "absent" THEN t0
              ELSE Put(t0, "description", descriptionText)
        t2 == IF c.sourceDocumentType = "none" THEN t1
              ELSE Put(t1, "sourceDocumentType", Scalar(c.sourceDocumentType))
        t3 == IF c.testStrategy = <<>> THEN t2 ELSE Put(t2, "testStrategy", c.testStrategy)
        t4 == IF c.performanceGoal = <<>> THEN t3
              ELSE Put(t3, "performanceGoal", c.performanceGoal)
        t5 == IF c.reliabilityTarget = <<>> THEN t4
              ELSE Put(t4, "reliabilityTarget", c.reliabilityTarget)
        t6 == IF c.layer = "none" THEN t5 ELSE Put(t5, "layer", Scalar(c.layer))
    IN  IF c.epicId = NoValue THEN t6 ELSE Put(t6, "epicId", c.epicId)

InitEscalate ==
    /\ documentSources = <<>>
    /\ options = DefaultOptions
    /\ pc = "idle"
    /\ sortedDocuments = <<>>
    /\ i = 1
    /\ currentTaskStartId = 0
    /\ allGeneratedTasksByDocId = [d \in {} |-> <<>>]
    /\ generatedTasksForOutput = <<>>
    /\ calls = <<>>
    /\ skipped = {}
    /\ err = "none"
    /\ store = EmptyStore
    /\ store0 = store
    /\ \E tasks \in {<<EscalationTask(1, c)>> : c \in EscalationChoices}
                    \cup UNION {{[k \in 1..n |-> EscalationTask(k, cs[k])] :
                                    cs \in [1..n -> ListChoices]} : n \in 2..MaxEscalated} :
         mg = [phase |-> "tasks", tasks |-> tasks, level |-> 0, result |-> <<>>]

\* escalateTaskPriority on the task of a list of one
EscalateTask ==
    /\ mg.phase = "tasks"
    /\ Len(mg.tasks) = 1
    /\ \E task \in {mg.tasks[1]} :
         mg' = IF escalateTaskPriorityThrows(task)
               THEN [mg EXCEPT !.phase = "taskThrown"]
               ELSE [mg EXCEPT !.phase = "taskEscalated",
                               !.level = escalationLevel(task)[1],
                               !.result = escalateTaskPriority(task)]
    /\ UNCHANGED hvars

\* escalateAfterMerge on the task of a list of one
EscalateAfterMerge ==
    /\ mg.phase = "tasks"
    /\ Len(mg.tasks) = 1
    /\ \E mergedTask \in {mg.tasks[1]} :
         mg' = IF escalateTaskPriorityThrows(mergedTask)
               THEN [mg EXCEPT !.phase = "mergeThrown"]
               ELSE [mg EXCEPT !.phase = "mergeEscalated",
                               !.result = escalateAfterMerge(mergedTask)]
    /\ UNCHANGED hvars

\* escalateAllTasks on the list
EscalateAllTasks ==
    /\ mg.phase = "tasks"
    /\ mg' = IF \E k \in DOMAIN mg.tasks : escalateTaskPriorityThrows(mg.tasks[k])
             THEN [mg EXCEPT !.phase = "allThrown"]
             ELSE [mg EXCEPT !.phase = "allEscalated",
                             !.result = escalateAllTasks(mg.tasks)]
    /\ UNCHANGED hvars

NextEscalate == EscalateTask \/ EscalateAfterMerge \/ EscalateAllTasks

SpecEscalate == InitEscalate /\ [][NextEscalate]_vars

(***************************************************************************)
(* Properties of the rule engine                                           *)
(***************************************************************************)
\* C23: for every task, escalateAfterMerge returns a task whose priority is
\* not lower than the priority of the input task, and when the priority of
\* the rule engine is not strictly higher than the current one it returns the
\* very same task, without an escalationReason.
C23_EscalateAfterMergeNeverLowers ==
    /\ mg.phase # "mergeThrown"
    /\ mg.phase = "mergeEscalated" =>
         LET mergedTask == mg.tasks[1]
             escalationResult == escalateTaskPriority(mergedTask)
         IN  /\ PriorityLevel(mg.result.priority) >= PriorityLevel(mergedTask.priority)
             /\ ~isPriorityHigher(escalationResult.priority,
                                  PriorityOrDefault(mergedTask.priority))
                  => mg.result = mergedTask /\ "escalationReason" \notin DOMAIN mg.result

\* element k of the result of escalateAllTasks differs from the input task
\* in priority and escalationReason only
DiffersInPriorityOnly(escalated, task) ==
    /\ DOMAIN escalated = DOMAIN task \cup {"priority", "escalationReason"}
    /\ \A f \in DOMAIN task \ {"priority", "escalationReason"} : escalated[f] = task[f]

\* C24: escalateAllTasks returns a list of the length and order of its input
\* in which element k is the input object itself whenever the computed
\* priority equals the current priority of the task (a missing priority
\* counting as medium), and otherwise a copy that differs from the input task
\* in priority and escalationReason only.
C24_EscalateAllTasksKeepsUnchangedObjects ==
    /\ mg.phase # "allThrown"
    /\ mg.phase = "allEscalated" =>
         /\ Len(mg.result) = Len(mg.tasks)
         /\ \A k \in DOMAIN mg.tasks :
              IF escalateTaskPriority(mg.tasks[k]).priority
                    = PriorityOrDefault(mg.tasks[k].priority)
              THEN mg.result[k].ref = k /\ mg.result[k].task = mg.tasks[k]
              ELSE /\ mg.result[k].ref = NewObject
                   /\ mg.result[k].task.id = mg.tasks[k].id
                   /\ DiffersInPriorityOnly(mg.result[k].task, mg.tasks[k])

\* C25: for every task whose description is a string of trimmed length below
\* 20, escalateTaskPriority returns the priority low, whatever the document
\* type and whichever escalation rules fired.
C25_ShortDescriptionIsLow ==
    (mg.phase \in {"taskEscalated", "taskThrown"}
        /\ "description" \in DOMAIN mg.tasks[1]
        /\ TextLength(mg.tasks[1].description) < ShortDescriptionLength)
    => mg.phase = "taskEscalated" /\ mg.result.priority = "low"

RECURSIVE BumpTimes(_, _)
BumpTimes(level, n) == IF n = 0 THEN level ELSE BumpTimes(Bump(level), n - 1)

\* the level the rules give in the order of the specification: the base
\* level, +1 for each of the four signals, at least medium, the epic rule
SpecOrderLevel(task) ==
    LET sourceDocumentType == ValueOf(task, "sourceDocumentType")
        perf == TextOf(task, "performanceGoal")
        layer == ValueOf(task, "layer")
        base == PRIORITY_ORDER(BASE_PRIORITY_BY_DOCUMENT_TYPE(DocumentTypeKey(sourceDocumentType)))
        fires(signal) ==
            CASE signal = "testStrategy" ->
                    TextLength(TextOf(task, "testStrategy")) > TestStrategyMinLength
              [] signal = "performanceGoal" -> HasText(perf)
              [] signal = "reliabilityTarget" -> HasText(TextOf(task, "reliabilityTarget"))
              [] signal = "security" -> Range(TaskText(task)) \cap SecurityWords # {}
        signals == {signal \in {"testStrategy", "performanceGoal", "reliabilityTarget",
                                "security"} : fires(signal)}
        bumped == BumpTimes(base, Cardinality(signals))
        raised == IF \/ IsString(sourceDocumentType, "UX_SPEC") /\ IsString(layer, "presentation")
                     \/ IsString(layer, "infra") /\ perf # <<>>
                  THEN AtLeastMedium(bumped) ELSE bumped
    IN  IF HasText(ValueOf(task, "epicId").values)
           /\ "epic" \in Range(LowerWords(TextOf(task, "title")))
        THEN PRIORITY_ORDER("high") ELSE raised

\* C29: the level escalateTaskPriority holds just before its demotion rules
\* is the level the rules give in the order of the specification.
C29_CodeOrderGivesSpecOrderLevel ==
    mg.phase = "taskEscalated" => mg.level = SpecOrderLevel(mg.tasks[1])

\* the security rule and then the infra rule, last in the code, fire on a
\* task of a technical specification whose performanceGoal is blank
C29_Witness ==
    /\ mg.phase = "taskEscalated"
    /\ IsString(ValueOf(mg.tasks[1], "sourceDocumentType"), "TECH_SPEC")
    /\ IsString(ValueOf(mg.tasks[1], "layer"), "infra")
    /\ TextOf(mg.tasks[1], "performanceGoal") = Blank
    /\ mg.tasks[1].title = <<"Login">>
    /\ mg.level = PRIORITY_ORDER("medium")

(***************************************************************************)
(* Properties of the ids and of the tag in a run of processDocumentHierarchy *)
(***************************************************************************)
\* C27: in a run with append set, every task that was in the target tag
\* before the run is still in the persisted list of the tag after the run,
\* also when escalate is set and the escalation pass rewrites the tag.
C27_AppendKeepsExistingTasks ==
    (pc = "done" /\ options.append) =>
        \A task \in Range(store0[TargetTag]) : task \in Range(store[TargetTag])

\* the last successful generator invocation before the k-th, or 0
LastSuccessBefore(k) ==
    LET ok == {j \in 1..(k - 1) : calls[j].outcome = "ok"}
    IN  IF ok = {} THEN 0 ELSE CHOOSE j \in ok : \A h \in ok : h <= j

\* C28: the start id passed to the first generator invocation of a run is
\* the maximum existing id plus 1 under append and 1 otherwise; the start id
\* passed to a later invocation is the nextTaskId of the most recent
\* successful invocation, its start id plus the number of tasks it generated;
\* the ids of the tasks generated in the run increase in processing order.
C28_StartIdsFollowNextTaskId ==
    /\ \A k \in DOMAIN calls :
         calls[k].currentTaskStartId =
            IF LastSuccessBefore(k) > 0 THEN StartIdAfterCall(LastSuccessBefore(k))
            ELSE IF options.append THEN SeqMax(Ids(store0[TargetTag])) + 1
            ELSE 1
    /\ \A a, b \in DOMAIN generatedTasksForOutput :
         a < b => generatedTasksForOutput[a].id < generatedTasksForOutput[b].id

\* an appending run on a tag that held tasks, in which two sources generated
\* tasks one after the other
C28_Witness ==
    /\ pc = "done"
    /\ options.append
    /\ store0[TargetTag] # <<>>
    /\ \E k \in DOMAIN calls :
         /\ LastSuccessBefore(k) > 0
         /\ calls[k].outcome = "ok"
         /\ TasksOfCall(k) # <<>>
         /\ TasksOfCall(LastSuccessBefore(k)) # <<>>

(***************************************************************************)
(* Properties of the similarity tier of mergeTasksInTag                    *)
(***************************************************************************)
\* the task survived the run: it was not merged away
Survives(task) == task.id \notin DOMAIN mg.mergedIdMap

\* C26: when mergeTasksInTag returns with useLLM off, no candidate group
\* holds two surviving tasks whose similarity, computed on their input title
\* and description, is greater than or equal to similarityThreshold.
C26_SimilarSurvivorsAreMerged ==
    (mg.phase = "done" /\ ~mg.useLLM) =>
        \A g \in DOMAIN mg.duplicateGroups :
            LET group == mg.duplicateGroups[g] IN
            \A a, b \in DOMAIN group :
                (a < b /\ Survives(group[a]) /\ Survives(group[b]))
                => ~AtLeast(calculateSemanticSimilarity(group[a], group[b]),
                            mg.similarityThreshold)

(***************************************************************************)
(* mergeTasksInTag applied a second time, with the same options and the    *)
(* arbiter off, to the mergedTasks it returned. The run record carries the *)
(* number of the application and the list the first one returned.          *)
(***************************************************************************)
\* the locals of an application of mergeTasksInTag to tasks
MergeApplication(tasks, o, round, first) ==
    Put(Put([MergeStart(tasks, o.useLLM, o.escalate)
                EXCEPT !.similarityThreshold = o.similarityThreshold],
            "round", round),
        "first", first)

InitMergeTwice ==
    /\ documentSources = <<>>
    /\ options = DefaultOptions
    /\ pc = "idle"
    /\ sortedDocuments = <<>>
    /\ i = 1
    /\ currentTaskStartId = 0
    /\ allGeneratedTasksByDocId = [d \in {} |-> <<>>]
    /\ generatedTasksForOutput = <<>>
    /\ calls = <<>>
    /\ skipped = {}
    /\ err = "none"
    /\ \E n \in 2..MaxTasks :
         \E ids \in IdOrders(n), kinds \in [1..n -> Kinds],
            o \in {mo \in MergeOptions : ~mo.useLLM} :
           \E E \in {edges \in EdgeSets(n, o) : Cardinality(edges) <= 1} :
              /\ mg = MergeApplication(MergeInput(n, ids, kinds, E), o, 1, <<>>)
              /\ store = MergeStore(MergeInput(n, ids, kinds, E))
    /\ store0 = store

\* the caller hands the returned mergedTasks to mergeTasksInTag again
MergeAgain ==
    /\ mg.phase = "done"
    /\ mg.round = 1
    /\ mg' = MergeApplication(mg.processedTasks,
                              [useLLM |-> mg.useLLM, escalate |-> mg.options.escalate,
                               similarityThreshold |-> mg.similarityThreshold],
                              2, mg.processedTasks)
    /\ UNCHANGED hvars

NextMergeTwice ==
    \/ HashTier
    \/ SimilarityTier
    \/ ReindexAndReturn
    \/ MergeAgain

SpecMergeTwice == InitMergeTwice /\ [][NextMergeTwice]_vars

\* C30: mergeTasksInTag is idempotent: applied with the same options and the
\* arbiter off to the mergedTasks it returned, it completes without error and
\* returns the same list with no merge event recorded.
C30_MergeIsIdempotent ==
    mg.round = 2 =>
        /\ mg.phase # "threw"
        /\ mg.phase = "done" => mg.processedTasks = mg.first /\ mg.mergedGroups = <<>>

====
